---- MODULE Spec2Model ----
(***************************************************************************)
(* A model of LearnFileDownloader.py: the session login, the course loop,  *)
(* the dispatch over resource descriptors, learnUserObj.downloadFile with  *)
(* its path sanitisation, and extract_between_res.                         *)
(*                                                                         *)
(* A Python str is a sequence of one-character strings; os.path is         *)
(* posixpath; the filesystem is a set of directories and a function from   *)
(* file paths to contents; an exception is the name of its class.          *)
(***************************************************************************)
EXTENDS Integers, Sequences, FiniteSets, TLC

VARIABLES
    DEBUG,        \* the module's debug flag
    files,        \* the filesystem: file path -> the lines or bodies written to it
    dirs,         \* the filesystem: the directories that exist
    last,         \* the locals of the latest downloadFile call at its return
    ncalls,       \* the number of downloadFile calls so far
    pc,           \* main's position
    err,          \* the exception that ended the run, or "none"
    fetches,      \* the requests sent through the session's opener, in order
    env,          \* the portal and the disk as the run finds them: the landing page, whether
                  \* the credentials are right, the directories at the start, the cells
                  \* served, the resource page served last, the answers to the
                  \* requests of the descriptor handled last
    courses,      \* the selected courses, in order
    ci,           \* the index of the course main's loop is at
    item_array,   \* the descriptors of the course's resource page
    ii,           \* the index of the descriptor download_resource_page is at
    dispatched,   \* the handler calls made so far: <<course, descriptor, handler>>
    html_txt,     \* extract_between_res: its text argument
    res           \* extract_between_res: its arguments and its result

vars == <<DEBUG, files, dirs, last, ncalls,
          pc, err, fetches, env, courses, ci, item_array, ii, dispatched,
          html_txt, res>>

fsVars == <<files, dirs, last, ncalls>>
mainVars == <<pc, err, fetches, env, courses, ci, item_array, ii, dispatched>>
exVars == <<html_txt, res>>

----------------------------------------------------------------------------
(* Module constants of the program.                                        *)

MAX_FILE_NAME_LEN == 259

PATH_STORAGE_FN == <<"O","r","i","g","F","N","a","m","e","s",".","t","x","t">>

MAX_FOLDER_NAME_LEN == MAX_FILE_NAME_LEN - Len(PATH_STORAGE_FN) - 1

\* the character class of forbidden_fn_chars_re
forbidden_fn_chars == {":", "*", "?", "\"", "<", ">", "|"}

\* the characters the warning of downloadFile lists as unusable in names
listed_forbidden_chars == {"\\", "/", ":", "*", "?", "<", ">", "|"}

\* None, as the value of a name that holds a str otherwise
None == <<"<None>">>

----------------------------------------------------------------------------
(* Strings. A definition that is used more than once is the parameter of   *)
(* an operator, so that it is evaluated once.                              *)

Pad(n) == [i \in 1..n |-> "a"]

Min(S) == CHOOSE x \in S : \A y \in S : x <= y

Max(S) == CHOOSE x \in S : \A y \in S : y <= x

StartsWith(s, p) == Len(s) >= Len(p) /\ SubSeq(s, 1, Len(p)) = p

Digit(d) == <<"0","1","2","3","4","5","6","7","8","9">>[d + 1]

RECURSIVE Str(_)
\* str(i) for an int i >= 0
Str(i) == IF i < 10 THEN <<Digit(i)>> ELSE Str(i \div 10) \o <<Digit(i % 10)>>

\* the characters of s at the indices kept, in order
Pick(s, kept) == [k \in 1..Len(kept) |-> s[kept[k]]]

\* s with the characters at the indices in D removed
DropIdx(s, D) ==
    IF D = {} THEN s
    ELSE Pick(s, SelectSeq([i \in 1..Len(s) |-> i], LAMBDA i : i \notin D))

\* forbidden_fn_chars_re.sub('', s)
StripForbidden(s) == SelectSeq(s, LAMBDA c : c \notin forbidden_fn_chars)

\* the indices where '&amp' starts in s
AmpAt(s) ==
    {i \in 1..Len(s) - 3 : s[i] = "&" /\ s[i+1] = "a" /\ s[i+2] = "m" /\ s[i+3] = "p"}

\* amp_re.sub('&', s) with amp_re = '&amp;?'
AmpSub(s) ==
    DropIdx(s, UNION {IF i + 4 <= Len(s) /\ s[i+4] = ";" THEN (i+1)..(i+4) ELSE (i+1)..(i+3)
                      : i \in AmpAt(s)})

\* the percent escapes the portal's names are drawn from, decoded
Unescaped == [p \in {<<"3","A">>, <<"2","6">>} |-> IF p = <<"3","A">> THEN ":" ELSE "&"]

\* the indices where a percent escape starts in s
EscapeAt(s) ==
    {i \in 1..Len(s) - 2 : s[i] = "%" /\ <<s[i+1], s[i+2]>> \in DOMAIN Unescaped}

UnquoteAt(s, P) ==
    DropIdx([i \in 1..Len(s) |-> IF i \in P THEN Unescaped[<<s[i+1], s[i+2]>>] ELSE s[i]],
            UNION {(i+1)..(i+2) : i \in P})

\* urllib.parse.unquote(s)
Unquote(s) == UnquoteAt(s, EscapeAt(s))

----------------------------------------------------------------------------
(* os.path (posixpath), relative to the working directory cwd.             *)

cwd == <<"/", "w">>

RECURSIVE CompsFrom(_, _, _)
\* the components of s from index b + 1 on, B the indices of its slashes
\* and Len(s) + 1
CompsFrom(s, B, b) ==
    IF b > Len(s) THEN <<>>
    ELSE <<SubSeq(s, b + 1, Min({c \in B : c > b}) - 1)>>
         \o CompsFrom(s, B, Min({c \in B : c > b}))

\* s.split('/')
Split(s) == CompsFrom(s, {i \in 1..Len(s) : s[i] = "/"} \cup {Len(s) + 1}, 0)

RECURSIVE Join(_)
\* '/'.join(comps)
Join(comps) ==
    IF comps = <<>> THEN <<>>
    ELSE IF Len(comps) = 1 THEN comps[1]
    ELSE comps[1] \o <<"/">> \o Join(Tail(comps))

\* one turn of the loop of normpath: '' and '.' are dropped, '..' takes back
\* the component before it
Collapse1(acc, c, rooted) ==
    IF c = <<>> \/ c = <<".">> THEN acc
    ELSE IF c # <<".", ".">> THEN Append(acc, c)
    ELSE IF acc # <<>> /\ acc[Len(acc)] # <<".", ".">> THEN SubSeq(acc, 1, Len(acc) - 1)
    ELSE IF acc = <<>> /\ rooted THEN acc
    ELSE Append(acc, c)

RECURSIVE Collapse(_, _, _)
Collapse(comps, acc, rooted) ==
    IF comps = <<>> THEN acc
    ELSE Collapse(Tail(comps), Collapse1(acc, Head(comps), rooted), rooted)

\* the number of slashes normpath keeps at the start of path
InitialSlashes(path) ==
    IF path[1] # "/" THEN 0
    ELSE IF StartsWith(path, <<"/", "/">>) /\ ~StartsWith(path, <<"/", "/", "/">>) THEN 2
    ELSE 1

OrDot(out) == IF out = <<>> THEN <<".">> ELSE out

NormWith(path, slashes) ==
    OrDot([i \in 1..slashes |-> "/"] \o Join(Collapse(Split(path), <<>>, slashes > 0)))

\* os.path.normpath(path)
normpath(path) == IF path = <<>> THEN <<".">> ELSE NormWith(path, InitialSlashes(path))

\* os.path.abspath(path)
abspath(path) ==
    IF path # <<>> /\ path[1] = "/" THEN normpath(path)
    ELSE normpath(cwd \o <<"/">> \o path)

\* the components of an absolute, normalised path
PathList(p) == SelectSeq(Split(p), LAMBDA c : c # <<>>)

\* the length of the longest common prefix of two lists
CommonLen(a, b) ==
    IF \A i \in 1..Len(a) : i <= Len(b) /\ a[i] = b[i] THEN Len(a)
    ELSE Min({i \in 1..Len(a) : i > Len(b) \/ a[i] # b[i]}) - 1

RelFrom(start_list, path_list, i) ==
    OrDot(Join([k \in 1..(Len(start_list) - i) |-> <<".", ".">>]
               \o SubSeq(path_list, i + 1, Len(path_list))))

RelLists(start_list, path_list) ==
    RelFrom(start_list, path_list, CommonLen(start_list, path_list))

\* os.path.relpath(path), for a path that is not empty
relpath(path) == RelLists(PathList(abspath(cwd)), PathList(abspath(path)))

DirUpTo(p, k) == IF k = 1 THEN <<"/">> ELSE SubSeq(p, 1, k - 1)

\* os.path.dirname of an absolute, normalised path
dirname(p) == DirUpTo(p, Max({i \in 1..Len(p) : p[i] = "/"}))

RECURSIVE Ancestors(_)
\* an absolute, normalised path and every directory above it
Ancestors(p) == IF p = <<"/">> THEN {p} ELSE {p} \cup Ancestors(dirname(p))

----------------------------------------------------------------------------
(* The filesystem.                                                         *)

IsPath(F, D, a) == a \in D \/ a \in DOMAIN F

\* os.path.exists(path)
Exists(F, D, path) == IsPath(F, D, abspath(path))

\* the exception of open(p, mode) for writing or appending, p absolute and
\* normalised, or "none"
OpenError(F, D, p) ==
    IF p \in D THEN "IsADirectoryError"
    ELSE IF dirname(p) \in D THEN "none"
    ELSE IF \E a \in Ancestors(p) : a \in DOMAIN F THEN "NotADirectoryError"
    ELSE "FileNotFoundError"

\* the exception of os.makedirs(path), or "none"
MakedirsError(F, D, path) ==
    IF \E a \in Ancestors(abspath(path)) : a \in DOMAIN F THEN "NotADirectoryError"
    ELSE IF abspath(path) \in D THEN "FileExistsError"
    ELSE "none"

\* the directories after os.makedirs(path)
Makedirs(D, path) == D \cup Ancestors(abspath(path))

\* the files after open(p, 'a') and one print to it
AppendLine(F, p, line) ==
    [q \in DOMAIN F \cup {p} |-> IF q = p THEN (IF p \in DOMAIN F THEN Append(F[p], line) ELSE <<line>>)
                                 ELSE F[q]]

\* the files after open(p, 'w+b') and shutil.copyfileobj(response, out_file)
WriteBody(F, p, body) ==
    [q \in DOMAIN F \cup {p} |-> IF q = p THEN <<body>> ELSE F[q]]

----------------------------------------------------------------------------
(* learnUserObj.downloadFile, as the steps of its body on a frame: the     *)
(* filesystem (F, D), the exception raised or "none", and the locals.      *)

\* extension_map.FILE_EXT_MAP: media type -> extension, or None for a type
\* that has no extension
FILE_EXT_MAP ==
    [m \in {"application/pdf", "text/html", "application/octet-stream"} |->
        CASE m = "application/pdf" -> <<"p","d","f">>
          [] m = "text/html" -> <<"h","t","m","l">>
          [] OTHER -> None]

\* the characters of the model's alphabet that \w matches
WordChars == {"a", "b", "p", "d", "f", "r", "n", "h", "t", "m", "l", "x", "o",
              "0", "1", "2", "3", "4", "5", "6", "7", "8", "9", "_"}

\* learnUserObj.get_content_type(response)[0]: the Content-Type header is a
\* sequence of lexemes, the media type the lexemes before the first ';' or blank
get_content_type(header) ==
    IF header = <<>> \/ header[1] \in {";", " "} THEN "" ELSE header[1]

\* fn_re on a Content-Disposition file name whose last dot is at k: what
\* precedes the dot when only \w follows it
FnMatch(cd, k) ==
    IF \A j \in (k + 1)..Len(cd) : cd[j] \in WordChars
    THEN [err |-> "none", filename |-> AmpSub(Unquote(SubSeq(cd, 1, k - 1)))]
    ELSE [err |-> "AttributeError", filename |-> <<>>]

\* learnUserObj.get_filename(response, learn_name); cd is the value of
\* filename="..." in the Content-Disposition header, or None without the header
get_filename(cd, learn_name) ==
    IF cd = None THEN [err |-> "none", filename |-> AmpSub(Unquote(learn_name))]
    ELSE IF \A i \in 1..Len(cd) : cd[i] # "." THEN [err |-> "AttributeError", filename |-> <<>>]
    ELSE FnMatch(cd, Max({i \in 1..Len(cd) : cd[i] = "."}))

\* is_known_type, as lines 173-179 set it
is_known_type(media_type) ==
    media_type \in DOMAIN FILE_EXT_MAP /\ FILE_EXT_MAP[media_type] # None

\* f"{folder}/{name}"
Slash(folder, name) == folder \o <<"/">> \o name

renamed_file == <<"r", "n">>

\* the path whose existence the loop of lines 220-222 tests for i
RnProbe(dest_folder, i) == Slash(dest_folder, renamed_file \o Str(i))

RECURSIVE RnLoop(_, _, _, _)
\* i after the while loop of lines 220-222
RnLoop(F, D, dest_folder, i) ==
    IF Exists(F, D, RnProbe(dest_folder, i)) THEN RnLoop(F, D, dest_folder, i + 1) ELSE i

\* lines 224-227: the synthetic name
RnName(i, known, ext) ==
    IF known THEN renamed_file \o Str(i) \o <<".">> \o ext ELSE renamed_file \o Str(i)

\* line 214: the folder cut to the ceiling on its length
TruncateFolder(dest_folder) == SubSeq(dest_folder, 1, MAX_FOLDER_NAME_LEN)

\* line 213: is the folder over its ceiling
FolderTooLong(dest_folder) == Len(dest_folder) > MAX_FOLDER_NAME_LEN

\* line 217 with the comparison one off
TooLongOffByOne(dest) == Len(dest) > MAX_FILE_NAME_LEN + 1

\* line 217: is the path over the ceiling
TooLong(dest) == Len(dest) > MAX_FILE_NAME_LEN

\* line 212: the path the side-car line names as the original, given the
\* path of line 196 and the path after lines 198-210
OrigPath(intended, stripped_dest) == stripped_dest

\* line 232: are missing folders created
CreatesFolder(debug) == ~debug

\* line 235: is the side-car file opened and appended to
WritesSidecar(debug, orig_path, dest) == orig_path # dest

\* line 242: is the response body written
WritesBody(debug) == ~debug

MapLine(dest, orig_path) == [kind |-> "map", a |-> dest, b |-> orig_path]
BodyLine(id) == [kind |-> "body", a |-> <<>>, b |-> <<id>>]
Warning(kind, a, b) == [kind |-> kind, a |-> a, b |-> b]

\* the frame at the entry of downloadFile(url, dest_folder, learn_name); body
\* names the content of the response
Enter(F, D, debug, dest_folder, body) ==
    [F |-> F, D |-> D, debug |-> debug, body |-> body, err |-> "none",
     filename |-> <<>>, known |-> FALSE, ext |-> <<>>, full_fn |-> <<>>,
     dest_folder |-> dest_folder, dest |-> <<>>, intended |-> <<>>, orig_path |-> <<>>,
     warnings |-> <<>>, renamed |-> FALSE, wrote |-> FALSE, logged |-> FALSE]

\* dest_folder and dest = os.path.abspath(f"{dest_folder}/{full_fn}")
SetFolder(L, folder) ==
    [L EXCEPT !.dest_folder = folder, !.dest = abspath(Slash(folder, L.full_fn))]

\* lines 169-189: the file name and the extension. Line 185 reads
\* content_type, a name downloadFile never binds.
ResolveName(L, fn, media_type) ==
    IF fn.err # "none" THEN [L EXCEPT !.err = fn.err]
    ELSE IF is_known_type(media_type)
    THEN [L EXCEPT !.filename = fn.filename, !.known = TRUE,
                   !.ext = FILE_EXT_MAP[media_type],
                   !.full_fn = fn.filename \o <<".">> \o FILE_EXT_MAP[media_type]]
    ELSE [L EXCEPT !.filename = fn.filename, !.err = "NameError"]

\* lines 191-196
IntendedPath(L) ==
    IF L.err # "none" THEN L
    ELSE SetFolder(L, abspath(Unquote(AmpSub(L.dest_folder))))

StripTo(L, rel_path, rel_path2) ==
    IF rel_path = rel_path2 THEN [L EXCEPT !.intended = L.dest]
    ELSE SetFolder([L EXCEPT !.intended = L.dest,
                             !.full_fn = StripForbidden(L.full_fn),
                             !.warnings = Append(@, Warning("forbidden", rel_path, rel_path2))],
                   abspath(StripForbidden(relpath(L.dest_folder))))

StripRel(L, rel_path) ==
    IF StripForbidden(rel_path) = <<>> THEN [L EXCEPT !.err = "ValueError"]
    ELSE StripTo(L, rel_path, relpath(StripForbidden(rel_path)))

\* lines 198-210
StripPath(L) == IF L.err # "none" THEN L ELSE StripRel(L, relpath(L.dest))

\* lines 212-215
TruncatePath(L) ==
    IF L.err # "none" THEN L
    ELSE IF FolderTooLong(L.dest_folder)
    THEN SetFolder([L EXCEPT !.orig_path = OrigPath(L.intended, L.dest)],
                   TruncateFolder(L.dest_folder))
    ELSE [L EXCEPT !.orig_path = OrigPath(L.intended, L.dest)]

RenameTo(L, full_fn) ==
    [L EXCEPT !.full_fn = full_fn, !.dest = abspath(Slash(L.dest_folder, full_fn)),
              !.renamed = TRUE]

\* lines 217-229
RenamePath(L) ==
    IF L.err # "none" \/ ~TooLong(L.dest) THEN L
    ELSE RenameTo(L, RnName(RnLoop(L.F, L.D, L.dest_folder, 1), L.known, L.ext))

CreateWith(L, e) ==
    IF e # "none" THEN [L EXCEPT !.err = e] ELSE [L EXCEPT !.D = Makedirs(L.D, L.dest_folder)]

\* lines 231-233
CreateFolder(L) ==
    IF L.err # "none" \/ Exists(L.F, L.D, L.dest_folder) \/ ~CreatesFolder(L.debug) THEN L
    ELSE CreateWith(L, MakedirsError(L.F, L.D, L.dest_folder))

RecordAt(L, storage_file_path, e) ==
    IF e # "none" THEN [L EXCEPT !.err = e]
    ELSE [L EXCEPT !.F = AppendLine(L.F, storage_file_path, MapLine(L.dest, L.orig_path)),
                   !.logged = TRUE]

RecordIn(L, storage_file_path) ==
    RecordAt(L, storage_file_path, OpenError(L.F, L.D, storage_file_path))

\* lines 235-240
RecordRename(L) ==
    IF L.err # "none" \/ ~WritesSidecar(L.debug, L.orig_path, L.dest) THEN L
    ELSE RecordIn([L EXCEPT !.warnings = Append(@, Warning("too long", L.orig_path, L.dest))],
                  abspath(Slash(L.dest_folder, PATH_STORAGE_FN)))

SaveWith(L, e) ==
    IF e # "none" THEN [L EXCEPT !.err = e]
    ELSE [L EXCEPT !.F = WriteBody(L.F, L.dest, BodyLine(L.body)), !.wrote = TRUE]

\* lines 242-244
SaveBody(L) ==
    IF L.err # "none" \/ ~WritesBody(L.debug) THEN L
    ELSE SaveWith(L, OpenError(L.F, L.D, L.dest))

\* downloadFile(url, dest_folder, learn_name) on the filesystem (F, D), given
\* the headers of the response to url: the frame at its return
downloadFile(F, D, debug, resp, dest_folder, learn_name, body) ==
    SaveBody(RecordRename(CreateFolder(RenamePath(TruncatePath(StripPath(IntendedPath(
        ResolveName(Enter(F, D, debug, dest_folder, body),
                    get_filename(resp.cd, learn_name),
                    get_content_type(resp.ctype)))))))))

----------------------------------------------------------------------------
(* The callers' destination folders (download_file, download_folder,       *)
(* download_page) and the inputs the calls are drawn from.                 *)

SingleFiles == <<"S","i","n","g","l","e"," ","F","i","l","e","s">>

\* main, line 562: the answer to "Where do you want to save the files?"
destination_folder == <<"d">>

\* main, line 568
TargetDest(courseName) == abspath(destination_folder \o <<"/">> \o courseName)

\* the dest_folder argument each handler passes to downloadFile
HandlerFolder(kind, target_dest, learn_name) ==
    CASE kind = "file" -> target_dest \o <<"/">> \o SingleFiles \o <<"/">> \o learn_name
      [] kind = "folder" -> target_dest \o <<"/">> \o learn_name
      [] kind = "page" -> target_dest \o <<"/">> \o SingleFiles \o <<"/">>

\* the number of downloadFile calls of a run of SpecDownload
MaxCalls == 2

\* the length of the Single Files folder of course "c"
BaseLen == Len(TargetDest(<<"c">>)) + 1 + Len(SingleFiles)

\* display names: short ones, with and without characters downloadFile
\* treats specially, and long ones on both sides of each ceiling: for a File
\* the folder is BaseLen + 1 + n long and the path 2n + BaseLen + 6 with
\* '.pdf', for a Page the path is BaseLen + 1 + n + 4 long
ShortNames == { <<"a">>, <<"a", ":", "b">>, <<"a", "\\", "b">>, <<"a", "/", "b">>,
                <<"a", "%", "3", "A">>, <<"r", "n", "1">> }

LongNames == { Pad((MAX_FILE_NAME_LEN - BaseLen - 6) \div 2),
               Pad((MAX_FILE_NAME_LEN - BaseLen - 6) \div 2 + 1),
               Pad(MAX_FOLDER_NAME_LEN - BaseLen - 1),
               Pad(MAX_FOLDER_NAME_LEN - BaseLen),
               Pad(MAX_FILE_NAME_LEN - BaseLen - 4) }

PdfResponse == [cd |-> None, ctype |-> <<"application/pdf">>]

\* the headers of the responses: a PDF, a page with a charset, a type the
\* table lacks, a type the table maps to None, and two with a
\* Content-Disposition header
Responses == { PdfResponse,
               [cd |-> None, ctype |-> <<"text/html", ";", " ", "charset=utf-8">>],
               [cd |-> None, ctype |-> <<"application/x-unknown">>],
               [cd |-> None, ctype |-> <<"application/octet-stream">>],
               [cd |-> <<"b", ":", ".", "x", ".", "p", "d", "f">>, ctype |-> <<"application/pdf">>],
               [cd |-> <<"n", "o", "d", "o", "t">>, ctype |-> <<"application/pdf">>] }

\* the calls of SpecDownload: every name as a PDF through the File and Page
\* handlers, the short names through the Folder handler, and every response
\* for two short names of a File
Calls == { c \in [kind : {"file", "folder", "page"}, name : ShortNames \cup LongNames,
                  resp : Responses] :
             \/ c.resp = PdfResponse /\ (c.kind = "folder" => c.name \in ShortNames)
             \/ c.kind = "file" /\ c.name \in {<<"a">>, <<"a", ":", "b">>} }

NoCall == [called |-> FALSE]

\* the locals of a call at its return, with the arguments it was given
CallRecord(L, dest_folder, learn_name, resp) ==
    [called |-> TRUE, arg_folder |-> dest_folder, learn_name |-> learn_name,
     media_type |-> get_content_type(resp.ctype), err |-> L.err,
     filename |-> L.filename, known |-> L.known, intended |-> L.intended,
     orig_path |-> L.orig_path, dest_folder |-> L.dest_folder, full_fn |-> L.full_fn,
     dest |-> L.dest, warnings |-> L.warnings, renamed |-> L.renamed,
     wrote |-> L.wrote, logged |-> L.logged]

\* the filesystem before a run: the working directory alone, or with the
\* Single Files folder an earlier run left
RootDirs == Ancestors(cwd)
EarlierDirs == Ancestors(abspath(TargetDest(<<"c">>) \o <<"/">> \o SingleFiles))

\* the values of the variables a specification leaves alone
MainIdle ==
    /\ pc = "idle" /\ err = "none" /\ fetches = <<>> /\ env = <<>> /\ courses = <<>>
    /\ ci = 0 /\ item_array = <<>> /\ ii = 0 /\ dispatched = <<>>
ExtractIdle == html_txt = <<>> /\ res = [called |-> FALSE]
DownloadIdle == last = NoCall /\ ncalls = 0

----------------------------------------------------------------------------
(* SpecDownload: a run of downloadFile calls on one filesystem.            *)

InitDownload ==
    /\ DEBUG \in BOOLEAN
    /\ files = <<>>
    /\ dirs \in {RootDirs, EarlierDirs}
    /\ DownloadIdle
    /\ MainIdle
    /\ ExtractIdle

DownloadFileCall ==
    /\ ncalls < MaxCalls
    /\ \E c \in Calls :
        \E L \in {downloadFile(files, dirs, DEBUG, c.resp,
                               HandlerFolder(c.kind, TargetDest(<<"c">>), c.name),
                               c.name, ncalls + 1)} :
            /\ ncalls' = ncalls + 1
            /\ files' = L.F
            /\ dirs' = L.D
            /\ last' = CallRecord(L, HandlerFolder(c.kind, TargetDest(<<"c">>), c.name),
                                  c.name, c.resp)
            /\ UNCHANGED <<DEBUG, mainVars, exVars>>

NextDownload == DownloadFileCall

SpecDownload == InitDownload /\ [][NextDownload]_vars

----------------------------------------------------------------------------
(* The resource page and the dispatch over its descriptors.                *)

\* the number of courses selected, and of cells the portal serves in a run
MaxCourses == 2
MaxItems == 2

NoType == "None"

\* get_type(item_type, file_type, url)
get_type(item_type, file_type, url) ==
    CASE item_type = "File" -> "file"
      [] item_type = "Folder" -> "folder"
      [] item_type = "URL" -> "url"
      [] item_type = "Page" -> "page"
      [] item_type = "Course Material" -> "material"
      [] OTHER -> NoType

\* lines 520-529 with the else branch handing the descriptor to download_page
HandlerForAny(type) ==
    CASE type = "file" -> "download_file"
      [] type = "folder" -> "download_folder"
      [] type = "url" -> "download_url"
      [] OTHER -> "download_page"

\* lines 520-529: the handler download_resource_page calls for a type
HandlerFor(type) ==
    CASE type = "file" -> "download_file"
      [] type = "folder" -> "download_folder"
      [] type = "url" -> "download_url"
      [] type = "page" -> "download_page"
      [] OTHER -> "pass"

LearnUrl == "https://learn.canterbury.ac.nz/mod/view.php?id=5"
OtherUrl == "https://example.org/a.pdf"
ExtractedUrl == "https://learn.canterbury.ac.nz/pluginfile.php/5/a.pdf"
ArchiveUrl == "https://learn.canterbury.ac.nz/mod/folder/download_folder.php?id=5"

\* learn_url_re.match(url)
IsLearnUrl(url) == url \in {LearnUrl, ExtractedUrl, ArchiveUrl}

\* a cell of the resource table: one that text_re matches, with its groups,
\* or one it does not match
Cell(item_type, file_type, url) ==
    [ok |-> TRUE, item_type |-> item_type, file_type |-> file_type, url |-> url,
     learn_name |-> <<"a">>]

BadCell == [ok |-> FALSE, item_type |-> "", file_type |-> "", url |-> "", learn_name |-> <<>>]

Cells == { Cell("File", "pdf", LearnUrl), Cell("File", "pdf", OtherUrl),
           Cell("Folder", "", LearnUrl), Cell("URL", "", LearnUrl),
           Cell("Page", "", LearnUrl), Cell("Course Material", "", LearnUrl),
           Cell("Quiz", "", LearnUrl), BadCell }

RECURSIVE SeqsUpTo(_, _)
\* the sequences over S of length at most n
SeqsUpTo(S, n) ==
    IF n = 0 THEN {<<>>}
    ELSE SeqsUpTo(S, n - 1) \cup {Append(q, x) : q \in SeqsUpTo(S, n - 1), x \in S}

\* the resource pages the portal may answer with: a table of at most n cells,
\* or no table at all
Pages(n) == [table : {TRUE}, cells : SeqsUpTo(Cells, n)]
            \cup {[table |-> FALSE, cells |-> <<>>]}

\* extract_download_info with a loop that passes over a cell text_re does not
\* match
ExtractErrorSkipping(page) == IF ~page.table THEN "TypeError" ELSE "none"

\* the page before any was served: an empty table
NoPage == [table |-> TRUE, cells |-> <<>>]

\* extract_download_info(courseResourceText): the exception it raises, or "none"
ExtractError(page) ==
    IF ~page.table THEN "TypeError"
    ELSE IF \E i \in 1..Len(page.cells) : ~page.cells[i].ok THEN "AttributeError"
    ELSE "none"

\* extract_download_info(courseResourceText): item_array
extract_download_info(page) ==
    [i \in 1..Len(page.cells) |->
        [type |-> get_type(page.cells[i].item_type, page.cells[i].file_type, page.cells[i].url),
         url |-> page.cells[i].url,
         learn_name |-> page.cells[i].learn_name]]

\* a request sent through the opener while course c, descriptor i is handled
Request(kind, c, i, url, data) ==
    [kind |-> kind, course |-> c, item |-> i, url |-> url, data |-> data]

HtmlHeader == <<"text/html", ";", " ", "charset=utf-8">>
PdfHeader == <<"application/pdf">>
UnknownResponse == [cd |-> None, ctype |-> <<"application/x-unknown">>]
HtmlResponse == [cd |-> None, ctype |-> HtmlHeader]

\* what the portal answers while a descriptor is handled: is it reachable
\* (net), the Content-Type of the header-only fetch, does the page fetched
\* hold what the handler's pattern looks for (found), the <h2> title of a URL
\* page, and the headers of the response to the binary fetch
Answer(net, header, found, title, resp) ==
    [net |-> net, header |-> header, found |-> found, title |-> title, resp |-> resp]

Answers(type) ==
    CASE type = "file" ->
            { Answer(FALSE, PdfHeader, TRUE, <<>>, PdfResponse),
              Answer(TRUE, PdfHeader, TRUE, <<>>, PdfResponse),
              Answer(TRUE, PdfHeader, TRUE, <<>>, UnknownResponse),
              Answer(TRUE, HtmlHeader, TRUE, <<>>, PdfResponse),
              Answer(TRUE, HtmlHeader, FALSE, <<>>, PdfResponse) }
      [] type = "folder" ->
            { Answer(FALSE, PdfHeader, TRUE, <<>>, PdfResponse),
              Answer(TRUE, PdfHeader, FALSE, <<>>, PdfResponse),
              Answer(TRUE, PdfHeader, TRUE, <<>>, PdfResponse) }
      [] type = "url" ->
            { Answer(FALSE, PdfHeader, TRUE, <<"t">>, PdfResponse),
              Answer(TRUE, PdfHeader, FALSE, <<"t">>, PdfResponse),
              Answer(TRUE, PdfHeader, TRUE, <<"t">>, PdfResponse),
              Answer(TRUE, PdfHeader, TRUE, <<"t", "?">>, PdfResponse) }
      [] type = "page" ->
            { Answer(FALSE, PdfHeader, TRUE, <<>>, HtmlResponse),
              Answer(TRUE, PdfHeader, TRUE, <<>>, HtmlResponse),
              Answer(TRUE, PdfHeader, TRUE, <<>>, UnknownResponse) }
      [] OTHER -> { Answer(TRUE, PdfHeader, TRUE, <<>>, PdfResponse) }

\* the answer before any descriptor was handled
NoAnswer == Answer(TRUE, PdfHeader, TRUE, <<>>, PdfResponse)

\* the world a handler acts on: the filesystem, the requests sent, the
\* exception raised or "none", and the downloadFile calls
World == [F |-> files, D |-> dirs, fetches |-> fetches, err |-> "none",
          last |-> last, ncalls |-> ncalls]

Sent(W, kind, url) ==
    [W EXCEPT !.fetches = Append(@, Request(kind, ci, ii, url, ""))]

Raise(W, e) == [W EXCEPT !.err = e]

Returned(W, L, dest_folder, learn_name, resp) ==
    [W EXCEPT !.F = L.F, !.D = L.D, !.err = L.err, !.ncalls = @ + 1,
              !.last = CallRecord(L, dest_folder, learn_name, resp)]

\* learnUser.downloadFile(url, dest_folder, learn_name), line 167 on
CallDownloadFile(W, debug, o, url, dest_folder, learn_name) ==
    IF W.err # "none" THEN W
    ELSE IF ~o.net THEN Raise(Sent(W, "binary", url), "URLError")
    ELSE Returned(Sent(W, "binary", url),
                  downloadFile(W.F, W.D, debug, o.resp, dest_folder, learn_name, W.ncalls + 1),
                  dest_folder, learn_name, o.resp)

\* lines 401-402: open('ouput.txt', 'w') and the print to it
WriteOutput(W) ==
    IF OpenError(W.F, W.D, abspath(<<"o","u","p","u","t",".","t","x","t">>)) # "none"
    THEN Raise(W, OpenError(W.F, W.D, abspath(<<"o","u","p","u","t",".","t","x","t">>)))
    ELSE [W EXCEPT !.F = WriteBody(W.F, abspath(<<"o","u","p","u","t",".","t","x","t">>),
                                   [kind |-> "page", a |-> <<>>, b |-> <<>>])]

\* extract_pdf_url returning the url it was given, whatever the page holds
ExtractPdfUrlKeepsUrl(W, o, url) == [W |-> W, dl_url |-> url]

\* extract_pdf_url(learnUser, url): the world after it, and dl_url
extract_pdf_url(W, o, url) ==
    IF ~IsLearnUrl(url) THEN [W |-> W, dl_url |-> url]
    ELSE IF ~o.found
    THEN [W |-> Raise(WriteOutput(Sent(W, "page", url)), "AttributeError"), dl_url |-> url]
    ELSE [W |-> WriteOutput(Sent(W, "page", url)), dl_url |-> ExtractedUrl]

\* download_file, lines 458-463, after the header
FileFrom(W, debug, o, x, target_dest, learn_name) ==
    CallDownloadFile(x.W, debug, o, x.dl_url,
                     HandlerFolder("file", target_dest, learn_name), learn_name)

\* download_file(learnUser, url, target_dest, learn_name)
download_file(W, debug, o, url, target_dest, learn_name) ==
    IF ~o.net THEN Raise(Sent(W, "header", url), "URLError")
    ELSE IF get_content_type(o.header) = "text/html"
    THEN FileFrom(W, debug, o, extract_pdf_url(Sent(W, "header", url), o, url),
                  target_dest, learn_name)
    ELSE FileFrom(W, debug, o, [W |-> Sent(W, "header", url), dl_url |-> url],
                  target_dest, learn_name)

\* download_folder(learnUser, url, target_dest, learn_name)
download_folder(W, debug, o, url, target_dest, learn_name) ==
    IF ~o.net THEN Raise(Sent(W, "page", url), "URLError")
    ELSE IF ~o.found THEN Raise(Sent(W, "page", url), "AttributeError")
    ELSE CallDownloadFile(Sent(W, "page", url), debug, o, ArchiveUrl,
                          HandlerFolder("folder", target_dest, learn_name), learn_name)

Shortcut(target) == [kind |-> "shortcut", a |-> <<>>, b |-> <<target>>]

UrlWrite(W, dest, e) ==
    IF e # "none" THEN Raise(W, e) ELSE [W EXCEPT !.F = WriteBody(W.F, dest, Shortcut("target"))]

\* lines 500-503
UrlSave(W, dest) == IF W.err # "none" THEN W ELSE UrlWrite(W, dest, OpenError(W.F, W.D, dest))

\* lines 496-498
UrlFolder(W, abs_target_dest) ==
    IF IsPath(W.F, W.D, abs_target_dest) THEN W
    ELSE IF MakedirsError(W.F, W.D, abs_target_dest) # "none"
    THEN Raise(W, MakedirsError(W.F, W.D, abs_target_dest))
    ELSE [W EXCEPT !.D = Makedirs(W.D, abs_target_dest)]

\* download_url, lines 487-503, with target_dest as line 487 sets it
UrlTo(W, target_dest, title) ==
    UrlSave(UrlFolder(W, abspath(target_dest)),
            abspath(relpath(StripForbidden(relpath(
                Slash(target_dest, title \o <<".", "u", "r", "l">>))))))

\* download_url(learnUser, url, target_dest, learn_name)
download_url(W, debug, o, url, target_dest, learn_name) ==
    IF ~o.net THEN Raise(Sent(W, "page", url), "URLError")
    ELSE IF ~o.found THEN Raise(Sent(W, "page", url), "AttributeError")
    ELSE UrlTo(Sent(W, "page", url), target_dest \o <<"/">> \o SingleFiles \o <<"/">>, o.title)

\* download_page(learnUser, url, target_dest, learn_name)
download_page(W, debug, o, url, target_dest, learn_name) ==
    CallDownloadFile(W, debug, o, url, HandlerFolder("page", target_dest, learn_name), learn_name)

\* lines 518-529: one turn of the loop of download_resource_page
Handle(W, debug, o, item, target_dest) ==
    CASE HandlerFor(item.type) = "download_file" ->
            download_file(W, debug, o, item.url, target_dest, item.learn_name)
      [] HandlerFor(item.type) = "download_folder" ->
            download_folder(W, debug, o, item.url, target_dest, item.learn_name)
      [] HandlerFor(item.type) = "download_url" ->
            download_url(W, debug, o, item.url, target_dest, item.learn_name)
      [] HandlerFor(item.type) = "download_page" ->
            download_page(W, debug, o, item.url, target_dest, item.learn_name)
      [] OTHER -> W

----------------------------------------------------------------------------
(* Spec: a run of main.                                                    *)

\* what the landing page holds when loginToLearn fetches it
Landings == {"down", "no form", "no token", "ok"}

\* loginToLearn, lines 96-112: the exception it raises, or "none"
LoginError(landing) ==
    CASE landing = "down" -> "URLError"
      [] landing \in {"no form", "no token"} -> "AttributeError"
      [] OTHER -> "none"

\* loginToLearn, line 112: the value of the login token field
Token(landing) == IF landing = "ok" THEN "abc123" ELSE ""

\* loginToLearn, lines 96-120: the requests it sends
LoginRequests(landing) ==
    IF LoginError(landing) # "none" THEN <<Request("landing", 0, 0, "", "")>>
    ELSE <<Request("landing", 0, 0, "", ""), Request("login", 0, 0, "", Token(landing))>>

\* main, lines 553-560: the name of the k-th selected course
CourseName(k) == <<"c">> \o Str(k)

\* main, lines 566-571: where control goes when the body of the loop raises
\* while course c is processed
OnError(c) == [pc |-> "aborted", ci |-> c]

Init ==
    /\ DEBUG \in BOOLEAN
    /\ files = <<>>
    /\ dirs \in {RootDirs, Ancestors(abspath(TargetDest(CourseName(1)) \o <<"/">> \o SingleFiles))}
    /\ DownloadIdle
    /\ ExtractIdle
    /\ pc = "login"
    /\ err = "none"
    /\ fetches = <<>>
    /\ env \in [landing : Landings, creds : BOOLEAN, dirs : {dirs}, cells : {0},
                page : {NoPage}, answer : {NoAnswer}]
    /\ courses = <<>>
    /\ ci = 0
    /\ item_array = <<>>
    /\ ii = 0
    /\ dispatched = <<>>

\* main, line 537: learnUserObj(learnUsername, learnPassword)
LoginToLearn ==
    /\ pc = "login"
    /\ fetches' = LoginRequests(env.landing)
    /\ err' = LoginError(env.landing)
    /\ pc' = IF LoginError(env.landing) = "none" THEN "courses" ELSE "aborted"
    /\ UNCHANGED <<DEBUG, fsVars, env, courses, ci, item_array, ii, dispatched, exVars>>

\* main, lines 541-562: extract_course_codes_and_ids and the selection
ExtractCourses ==
    /\ pc = "courses"
    /\ fetches' = Append(fetches, Request("course_list", 0, 0, "", ""))
    /\ \/ /\ ~env.creds
          /\ err' = "TypeError"
          /\ pc' = "aborted"
          /\ UNCHANGED <<courses, ci>>
       \/ /\ env.creds
          /\ \E n \in 1..MaxCourses : courses' = [k \in 1..n |-> CourseName(k)]
          /\ ci' = 1
          /\ pc' = "course_loop"
          /\ err' = err
    /\ UNCHANGED <<DEBUG, fsVars, env, item_array, ii, dispatched, exVars>>

\* main, lines 566-570, and download_resource_page, lines 514-516
StartCourse ==
    /\ pc = "course_loop"
    /\ ci <= Len(courses)
    /\ fetches' = Append(fetches, Request("resources", ci, 0, "", ""))
    /\ \/ /\ err' = "URLError"
          /\ pc' = OnError(ci).pc
          /\ ci' = OnError(ci).ci
          /\ UNCHANGED <<item_array, ii>>
          /\ env' = env
       \/ \E page \in Pages(MaxItems - env.cells) :
            /\ env' = [env EXCEPT !.cells = @ + Len(page.cells), !.page = page]
            /\ IF ExtractError(page) # "none"
               THEN /\ err' = ExtractError(page)
                    /\ pc' = OnError(ci).pc
                    /\ ci' = OnError(ci).ci
                    /\ UNCHANGED <<item_array, ii>>
               ELSE /\ item_array' = extract_download_info(page)
                    /\ ii' = 1
                    /\ pc' = "dispatch"
                    /\ UNCHANGED <<err, ci>>
    /\ UNCHANGED <<DEBUG, fsVars, courses, dispatched, exVars>>

\* download_resource_page, lines 518-529: one descriptor
Dispatch ==
    /\ pc = "dispatch"
    /\ ii <= Len(item_array)
    /\ \E o \in Answers(item_array[ii].type) :
        \E W \in {Handle(World, DEBUG, o, item_array[ii], TargetDest(courses[ci]))} :
            /\ env' = [env EXCEPT !.answer = o]
            /\ files' = W.F
            /\ dirs' = W.D
            /\ fetches' = W.fetches
            /\ last' = W.last
            /\ ncalls' = W.ncalls
            /\ dispatched' = IF HandlerFor(item_array[ii].type) = "pass" THEN dispatched
                             ELSE Append(dispatched, <<ci, ii, HandlerFor(item_array[ii].type)>>)
            /\ IF W.err = "none"
               THEN /\ ii' = ii + 1
                    /\ UNCHANGED <<pc, err, ci>>
               ELSE /\ err' = W.err
                    /\ pc' = OnError(ci).pc
                    /\ ci' = OnError(ci).ci
                    /\ ii' = ii
    /\ UNCHANGED <<DEBUG, courses, item_array, exVars>>

\* main, line 571: the descriptors of the course are exhausted
EndCourse ==
    /\ pc = "dispatch"
    /\ ii > Len(item_array)
    /\ ci' = ci + 1
    /\ pc' = "course_loop"
    /\ item_array' = <<>>
    /\ ii' = 0
    /\ UNCHANGED <<DEBUG, fsVars, err, fetches, env, courses, dispatched, exVars>>

\* main, line 573
Finish ==
    /\ pc = "course_loop"
    /\ ci > Len(courses)
    /\ pc' = "finished"
    /\ UNCHANGED <<DEBUG, fsVars, err, fetches, env, courses, ci, item_array, ii, dispatched, exVars>>

Next == LoginToLearn \/ ExtractCourses \/ StartCourse \/ Dispatch \/ EndCourse \/ Finish

Spec == Init /\ [][Next]_vars

----------------------------------------------------------------------------
(* SpecExtract: extract_between_res on texts over a small alphabet, the    *)
(* two compiled patterns being literals.                                   *)

\* the length of the texts
MaxLen == 5

Alphabet == {"s", "e", "x"}

Texts == SeqsUpTo(Alphabet, MaxLen)

Patterns == { <<"s">>, <<"e">>, <<"s", "s">>, <<"e", "x">> }

\* does the literal pat match txt at the 0-based offset k
MatchesAt(txt, pat, k) ==
    k + Len(pat) <= Len(txt) /\ SubSeq(txt, k + 1, k + Len(pat)) = pat

NoMatch == [found |-> FALSE, start |-> 0, end |-> 0]

MatchAt(pat, k) == [found |-> TRUE, start |-> k, end |-> k + Len(pat)]

RECURSIVE search(_, _, _)
\* pattern.search(string, pos): the match object of the leftmost match at or
\* after pos, or NoMatch for None
search(pat, txt, pos) ==
    IF pos > Len(txt) THEN NoMatch
    ELSE IF MatchesAt(txt, pat, pos) THEN MatchAt(pat, pos)
    ELSE search(pat, txt, pos + 1)

\* lines 277-286, given start_match
BetweenFrom(html_txt_, start_index, end_match) ==
    IF end_match.found THEN SubSeq(html_txt_, start_index + 1, end_match.start) ELSE None

\* lines 274-286, given start_match; the end is looked for from the start of
\* the text, not from start_index
AfterStartFromZero(html_txt_, start_match, end_re) ==
    IF start_match.found
    THEN BetweenFrom(html_txt_, start_match.end, search(end_re, html_txt_, 0))
    ELSE None

\* lines 274-286, given start_match
AfterStart(html_txt_, start_match, end_re) ==
    IF start_match.found
    THEN BetweenFrom(html_txt_, start_match.end, search(end_re, html_txt_, start_match.end))
    ELSE None

\* extract_between_res(html_txt, start_re, end_re)
extract_between_res(html_txt_, start_re, end_re) ==
    AfterStart(html_txt_, search(start_re, html_txt_, 0), end_re)

InitExtract ==
    /\ html_txt \in Texts
    /\ res = [called |-> FALSE]
    /\ DEBUG = TRUE
    /\ files = <<>>
    /\ dirs = RootDirs
    /\ DownloadIdle
    /\ MainIdle

\* a call extract_between_res(html_txt, start_re, end_re)
ExtractCall ==
    /\ \E start_re \in Patterns, end_re \in Patterns :
        res' = [called |-> TRUE, start_re |-> start_re, end_re |-> end_re,
                html_txt |-> html_txt,
                out |-> extract_between_res(html_txt, start_re, end_re)]
    /\ UNCHANGED <<html_txt, DEBUG, fsVars, mainVars>>

NextExtract == ExtractCall

SpecExtract == InitExtract /\ [][NextExtract]_vars

----------------------------------------------------------------------------
(* extract_between_res                                                     *)

\* C10: a call of extract_between_res returns the text from the end of the
\* first match of start to the beginning of the first match of end at or
\* after that position, returns None exactly when start does not match or
\* end does not match from there on, and leaves the text as it was.
C10_ExtractBetween ==
    res.called =>
        /\ res.html_txt = html_txt
        /\ res.out # None =>
            \E a \in 0..Len(html_txt), b \in 0..Len(html_txt) :
                /\ MatchesAt(html_txt, res.start_re, a)
                /\ \A k \in 0..(a - 1) : ~MatchesAt(html_txt, res.start_re, k)
                /\ b >= a + Len(res.start_re)
                /\ MatchesAt(html_txt, res.end_re, b)
                /\ \A k \in (a + Len(res.start_re))..(b - 1) : ~MatchesAt(html_txt, res.end_re, k)
                /\ Len(res.out) = b - (a + Len(res.start_re))
                /\ \A k \in 1..Len(res.out) : res.out[k] = html_txt[a + Len(res.start_re) + k]
        /\ res.out = None <=>
            \A a \in 0..Len(html_txt) :
                (MatchesAt(html_txt, res.start_re, a)
                    /\ \A k \in 0..(a - 1) : ~MatchesAt(html_txt, res.start_re, k))
                => \A b \in (a + Len(res.start_re))..Len(html_txt) :
                        ~MatchesAt(html_txt, res.end_re, b)

\* two marked regions, of which the first is returned
C10_Witness ==
    /\ res.called
    /\ html_txt = <<"s", "x", "e", "s", "e">>
    /\ res.start_re = <<"s">>
    /\ res.end_re = <<"e">>
    /\ res.out = <<"x">>

----------------------------------------------------------------------------
(* downloadFile, under SpecDownload                                        *)

\* did the last call reach line 229 with a name for the file
Sanitized == last.called /\ last.known /\ last.err \notin {"AttributeError", "NameError", "ValueError"}

\* C1: for every call of downloadFile the final path is at most
\* MAX_FILE_NAME_LEN long and its folder at most MAX_FOLDER_NAME_LEN, and a
\* path that was over the ceiling ends as <folder>/rn<i>.<ext>.
C1_PathWithinCeilings ==
    Sanitized =>
        /\ Len(last.dest) <= MAX_FILE_NAME_LEN
        /\ Len(last.dest_folder) <= MAX_FOLDER_NAME_LEN
        /\ last.wrote => last.dest \in DOMAIN files
        /\ last.renamed =>
            \E i \in 1..(MaxCalls + 1) :
                /\ last.full_fn = renamed_file \o Str(i) \o <<".">> \o FILE_EXT_MAP[last.media_type]
                /\ last.dest = abspath(Slash(last.dest_folder, last.full_fn))

\* an intended path of 300 characters or more, its folder cut to the ceiling
\* and the file written under a synthetic name
C1_Witness ==
    /\ Sanitized
    /\ last.wrote
    /\ last.renamed
    /\ Len(last.intended) >= 300
    /\ Len(last.dest_folder) = MAX_FOLDER_NAME_LEN

\* C2: of two calls in a row that fall back to a synthetic name in the same
\* folder, the second writes to no path where a file exists, so not to the
\* path the first wrote to.
C2_NoOverwrite ==
    [][(/\ last.called /\ last.err = "none" /\ last.renamed /\ last.wrote
        /\ ncalls' = ncalls + 1
        /\ last'.err = "none" /\ last'.renamed /\ last'.wrote
        /\ last'.dest_folder = last.dest_folder)
        => (last'.dest \notin DOMAIN files /\ last'.dest # last.dest)]_vars

\* the side-car file of the folder the last call ended in
SidecarOf(call) == abspath(Slash(call.dest_folder, PATH_STORAGE_FN))

\* C3: a call that writes to a path other than the intended one (the folder
\* joined with the resolved name, before stripping, truncation and renaming)
\* appends exactly one line naming both to the side-car file of the folder,
\* and every side-car file keeps the lines it had.
C3_RenameRecorded ==
    [][(ncalls' = ncalls + 1 /\ last'.err = "none" /\ last'.wrote) =>
        /\ last'.dest # last'.intended =>
            /\ SidecarOf(last') \in DOMAIN files'
            /\ files'[SidecarOf(last')] =
                    (IF SidecarOf(last') \in DOMAIN files THEN files[SidecarOf(last')] ELSE <<>>)
                    \o <<MapLine(last'.dest, last'.intended)>>
        /\ \A p \in DOMAIN files :
            files[p][1].kind = "map" =>
                /\ p \in DOMAIN files'
                /\ Len(files'[p]) >= Len(files[p])
                /\ SubSeq(files'[p], 1, Len(files[p])) = files[p]]_vars

\* C6: a response whose media type the table lacks or maps to None does not
\* make downloadFile fail: the file is saved under the resolved name without
\* an extension.
C6_UnknownTypeSaved ==
    (last.called /\ ~is_known_type(last.media_type)) =>
        /\ last.err = "none"
        /\ last.full_fn = last.filename
        /\ ~DEBUG => last.wrote

\* C7: the file name and the folder a call ends with hold none of
\* \ / : * ? < > | but the separators of the folder, and stripping that
\* changed the path left a warning naming both forms.
C7_NoForbiddenLeft ==
    (last.called /\ last.known /\ last.err = "none") =>
        /\ \A k \in 1..Len(last.full_fn) : last.full_fn[k] \notin listed_forbidden_chars
        /\ \A k \in 1..Len(last.dest_folder) :
                last.dest_folder[k] \in listed_forbidden_chars => last.dest_folder[k] = "/"
        /\ relpath(last.intended) # relpath(StripForbidden(relpath(last.intended))) =>
                \E k \in 1..Len(last.warnings) :
                    /\ last.warnings[k].kind = "forbidden"
                    /\ last.warnings[k].a = relpath(last.intended)

----------------------------------------------------------------------------
(* main, under Spec                                                        *)

\* C4: with the debug flag set a run leaves the filesystem as it found it.
C4_DebugWritesNothing ==
    (DEBUG /\ pc # "idle") => (files = <<>> /\ dirs = env.dirs)

\* C5: an error raised while one selected course is processed does not keep
\* the courses after it from being processed: when the run is over, the
\* resource page of every selected course has been asked for.
C5_LaterCoursesProcessed ==
    (pc \in {"aborted", "finished"} /\ courses # <<>>) =>
        \A k \in 1..Len(courses) :
            \E j \in 1..Len(fetches) : fetches[j].kind = "resources" /\ fetches[j].course = k

\* is the descriptor at hand one download_resource_page skips
AtSkipped ==
    pc = "dispatch" /\ ii <= Len(item_array) /\ item_array[ii].type \in {"material", NoType}

\* C8: descriptors are handled one at a time in the order of the list, and a
\* descriptor of type 'material' or None sends no request, leaves the
\* filesystem alone, raises nothing and hands the loop to the descriptor
\* after it.
C8_SkippedDescriptor ==
    [][/\ AtSkipped =>
            /\ fetches' = fetches
            /\ files' = files
            /\ dirs' = dirs
            /\ err' = err
            /\ dispatched' = dispatched
            /\ pc' = "dispatch"
            /\ ci' = ci
            /\ ii' = ii + 1
            /\ item_array' = item_array
       /\ dispatched' # dispatched =>
            /\ pc = "dispatch"
            /\ ii <= Len(item_array)
            /\ dispatched' = Append(dispatched, <<ci, ii, HandlerFor(item_array[ii].type)>>)
            /\ ii' \in {ii, ii + 1}
            /\ \A k \in 1..Len(dispatched) :
                    dispatched[k][1] = ci => dispatched[k][2] < ii]_vars

\* a descriptor of unknown kind was skipped and the File after it dispatched
C8_Witness ==
    /\ Len(item_array) = 2
    /\ item_array[1].type = NoType
    /\ err = "none"
    /\ ii = 3
    /\ dispatched # <<>>
    /\ dispatched[Len(dispatched)] = <<ci, 2, "download_file">>

\* C9: when the token cannot be located or the portal rejects the
\* credentials, no request but those of the login is ever sent; and any
\* other request comes after the landing page was fetched and the
\* credentials posted with its token.
C9_LoginBeforeFetch ==
    pc # "idle" =>
        /\ (env.landing \in {"no form", "no token"} \/ ~env.creds) =>
                \A j \in 1..Len(fetches) : fetches[j].kind \in {"landing", "login"}
        /\ \A j \in 1..Len(fetches) :
                fetches[j].kind \notin {"landing", "login"} =>
                    /\ j > 2
                    /\ fetches[1].kind = "landing"
                    /\ fetches[2].kind = "login"
                    /\ fetches[2].data = Token(env.landing)

\* was the resource page of the course at hand served with a cell that
\* text_re does not match
BadCellServed ==
    /\ pc \in {"course_loop", "dispatch", "aborted", "finished"}
    /\ \E i \in 1..Len(env.page.cells) : ~env.page.cells[i].ok

\* C11: when a cell of a course's resource table fails the anchor pattern,
\* extract_download_info raises AttributeError and the run ends there: no
\* descriptor of that course, those of the cells before the failing one
\* included, was handed to a handler, nothing but the resource page was asked
\* for on its behalf, and no file or folder of the course was written.
C11_BadCellStopsCourse ==
    BadCellServed =>
        /\ err = "AttributeError"
        /\ pc = "aborted"
        /\ ci \in 1..Len(courses)
        /\ item_array = <<>>
        /\ fetches[Len(fetches)] = Request("resources", ci, 0, "", "")
        /\ \A k \in 1..Len(dispatched) : dispatched[k][1] # ci
        /\ \A j \in 1..Len(fetches) : fetches[j].course = ci => fetches[j].kind = "resources"
        /\ \A p \in (DOMAIN files) \cup (dirs \ env.dirs) :
                ~StartsWith(p, TargetDest(courses[ci]))

\* the table of the first of two courses has a File cell and then a cell
\* that fails the pattern
C11_Witness ==
    /\ BadCellServed
    /\ ci = 1
    /\ Len(courses) = 2
    /\ Len(env.page.cells) = 2
    /\ env.page.cells[1].ok
    /\ env.page.cells[1].item_type = "File"
    /\ ~env.page.cells[2].ok
    /\ err = "AttributeError"

\* is the descriptor at hand a File
AtFile == pc = "dispatch" /\ ii <= Len(item_array) /\ item_array[ii].type = "file"

\* the step download_file takes for the File at hand: the header of its URL
\* is asked for first; a binary fetch comes last and after the header, asks
\* for the link of the indirection page when reextracted and for the
\* descriptor's URL otherwise, and hands downloadFile the folder
\* <courseDest>/Single Files/<name>; it is made unless a fetch or the
\* extraction failed
FileStep(reextracted) ==
    /\ Len(fetches') > Len(fetches)
    /\ fetches'[Len(fetches) + 1] = Request("header", ci, ii, item_array[ii].url, "")
    /\ \A j \in (Len(fetches) + 1)..Len(fetches') :
        fetches'[j].kind = "binary" =>
            /\ j = Len(fetches')
            /\ j > Len(fetches) + 1
            /\ fetches'[j].url = IF reextracted THEN ExtractedUrl ELSE item_array[ii].url
            /\ reextracted => fetches'[j - 1] = Request("page", ci, ii, item_array[ii].url, "")
            /\ ncalls' = ncalls + 1
            /\ last'.arg_folder = TargetDest(courses[ci]) \o <<"/">> \o SingleFiles
                                    \o <<"/">> \o item_array[ii].learn_name
    /\ (env'.answer.net /\ (reextracted => env'.answer.found)) =>
            fetches'[Len(fetches')].kind = "binary"

\* C12 as stated: for a File descriptor the header is fetched first and the
\* binary fetch after it; the binary fetch asks for the link re-extracted
\* from the indirection page if and only if the media type of the header is
\* text/html, and for the descriptor's URL otherwise; downloadFile is handed
\* <courseDest>/Single Files/<name>.
C12_ReextractIffHtml ==
    [][AtFile => FileStep(get_content_type(env'.answer.header) = "text/html")]_vars

\* C12 as amended: the link is re-extracted if and only if the media type of
\* the header is text/html and the descriptor's URL is one of
\* https://learn.canterbury.ac.nz/; the rest as stated.
C12_FileFetches ==
    [][AtFile => FileStep(/\ get_content_type(env'.answer.header) = "text/html"
                          /\ IsLearnUrl(item_array[ii].url))]_vars

\* a File whose header was text/html was fetched from the re-extracted link
C12_Witness ==
    /\ pc = "dispatch"
    /\ ii = 2
    /\ item_array[1].type = "file"
    /\ item_array[1].url = LearnUrl
    /\ get_content_type(env.answer.header) = "text/html"
    /\ Len(fetches) >= 3
    /\ fetches[Len(fetches)].kind = "binary"
    /\ fetches[Len(fetches)].url = ExtractedUrl
    /\ fetches[Len(fetches) - 1].kind = "page"
    /\ fetches[Len(fetches) - 2].kind = "header"
    /\ last.called

====
